---------------------------- MODULE Spec2Model ----------------------------
(***************************************************************************)
(* Timeline generator (trace_to_html.py, generate_trace_json.py).          *)
(*                                                                         *)
(* Three specifications over one set of variables:                         *)
(*   SpecPack  the row packer assign_rows_per_thread, one loop iteration   *)
(*             per step, on any input order of one lane's tasks;           *)
(*   SpecGen   main(): parse_input row by row, then generate_html or       *)
(*             export_json;                                                *)
(*   SpecView  the viewer script embedded in the page: toggleBlock and     *)
(*             collapseAll on the scene generate_html rendered.            *)
(* Timestamps are integers (exactly representable floats).                 *)
(***************************************************************************)
EXTENDS Integers, Sequences, FiniteSets, TLC

VARIABLES
    \* ---- SpecPack: assign_rows_per_thread ----
    lane_tasks,     \* the argument `tasks`: one lane's tasks, in call order
    tasks_sorted,   \* local tasks_sorted
    rows_end,       \* local rows_end: cursor (last end) of each row
    assigned,       \* local assigned: <<[task, row]>> in placement order
    rows_count,     \* returned len(rows_end); -1 before the return
    pkpc            \* position in assign_rows_per_thread

VARIABLES
    \* ---- SpecGen: main() of either tool ----
    tool,           \* "html" (trace_to_html.py) or "json" (generate_trace_json.py)
    rows,           \* what csv.reader yields: one sequence of cells per line
    row_i,          \* enumerate index i of the next row
    tasks,          \* parse_input's list, then the generator's argument
    stderr,         \* diagnostics printed so far
    global_range,   \* <<>> until computed, then <<global_start, global_end>>
    thread_layout,  \* generate_html: per lane, in thread_order, [thread, assigned, rows_count]
    svg_items,      \* generate_html: the scene
    fs_dirs,        \* directories created
    fs_files,       \* files opened for writing
    pc              \* position in main()

VARIABLES
    \* ---- SpecRange: generate_html's range on binary64 timestamps ----
    f_tasks,        \* the (start, end) pairs of a non-empty task list
    f_range,        \* <<>> until computed, then <<global_start, global_end>>
    f_pc            \* position in generate_html

VARIABLES
    \* ---- SpecView: the script embedded in the page ----
    v_tasks,        \* the task list generate_html rendered
    document,       \* the page: [height, texts, tasks, headerRects]
    blocks,         \* the script's blocks array, hidden flags included
    textContent,    \* textContent of each text node
    task_display,   \* style.display of each rect.task
    text_display,   \* style.display of each text node
    last            \* the handler that ran last

packVars == <<lane_tasks, tasks_sorted, rows_end, assigned, rows_count, pkpc>>
genVars == <<tool, rows, row_i, tasks, stderr, global_range, thread_layout,
             svg_items, fs_dirs, fs_files, pc>>

floatVars == <<f_tasks, f_range, f_pc>>

viewVars == <<v_tasks, document, blocks, textContent, task_display,
              text_display, last>>

vars == <<packVars, genVars, floatVars, viewVars>>

notPack == <<genVars, floatVars, viewVars>>
notGen == <<packVars, floatVars, viewVars>>
notFloat == <<packVars, genVars, viewVars>>
notView == <<packVars, genVars, floatVars>>

-----------------------------------------------------------------------------
(* Bounds of the packer's inputs *)
MaxTasks == 3
MaxTime == 2

Times == 0 .. MaxTime

\* Task(start, end, thread, ..., idx); args/color/orig_line do not reach the
\* packer's decisions
MkTask(s, e, th, i) == [start |-> s, end |-> e, thread |-> th, idx |-> i]

-----------------------------------------------------------------------------
(* sorted(tasks, key=lambda t: (t.start, t.end)): stable, keys compared as   *)
(* tuples                                                                    *)

\* key(a) <= key(b) for key = (start, end)
KeyLE(a, b) == \/ a.start < b.start
               \/ (a.start = b.start /\ a.end <= b.end)

\* insert t behind every element whose key is <= key(t): equal keys keep the
\* order in which they were met (stability)
InsertStable(s, t) ==
    LET p == Cardinality({i \in 1 .. Len(s) : KeyLE(s[i], t)})
    IN  SubSeq(s, 1, p) \o <<t>> \o SubSeq(s, p + 1, Len(s))

RECURSIVE sorted(_)
sorted(s) ==
    IF s = <<>> THEN <<>>
    ELSE InsertStable(sorted(SubSeq(s, 1, Len(s) - 1)), s[Len(s)])

-----------------------------------------------------------------------------
(* The body of the packer's for loop *)

\* mutants of RowFits
RowFitsByEnd(last_end, t) == last_end <= t.end
RowFitsStrict(last_end, t) == last_end < t.start

\* mutant of PlaceTask: the last row that fits is taken, not the first
PlaceTaskLastFit(st, t) ==
    LET fit == {r \in 1 .. Len(st.rows_end) : st.rows_end[r] <= t.start}
    IN  IF fit # {}
        THEN LET r == CHOOSE x \in fit : \A y \in fit : y <= x
             IN  [rows_end |-> [st.rows_end EXCEPT ![r] = t.end],
                  assigned |-> Append(st.assigned, [task |-> t, row |-> r - 1])]
        ELSE [rows_end |-> Append(st.rows_end, t.end),
              assigned |-> Append(st.assigned,
                                  [task |-> t, row |-> Len(st.rows_end)])]

\* `if last_end <= t.start`
RowFits(last_end, t) == last_end <= t.start

\* one iteration of `for t in tasks_sorted`: st = [rows_end, assigned]
PlaceTask(st, t) ==
    LET fit == {r \in 1 .. Len(st.rows_end) : RowFits(st.rows_end[r], t)}
    IN  IF fit # {}
        THEN LET r == CHOOSE x \in fit : \A y \in fit : x <= y
             IN  [rows_end |-> [st.rows_end EXCEPT ![r] = t.end],
                  assigned |-> Append(st.assigned, [task |-> t, row |-> r - 1])]
        ELSE [rows_end |-> Append(st.rows_end, t.end),
              assigned |-> Append(st.assigned,
                                  [task |-> t, row |-> Len(st.rows_end)])]

RECURSIVE PlaceAll(_, _)
PlaceAll(st, ts) ==
    IF ts = <<>> THEN st
    ELSE PlaceAll(PlaceTask(st, ts[1]), SubSeq(ts, 2, Len(ts)))

\* the whole function: (assigned, len(rows_end))
assign_rows_per_thread(tl) ==
    LET st == PlaceAll([rows_end |-> <<>>, assigned |-> <<>>], sorted(tl))
    IN  [assigned |-> st.assigned, rows_count |-> Len(st.rows_end)]

-----------------------------------------------------------------------------
(* SpecPack *)

\* n tasks with times tm, position i of the call holding the task whose
\* sequence index is ord[i] - 1
LaneOf(n, tm, ord) ==
    [i \in 1 .. n |-> MkTask(tm[ord[i]][1], tm[ord[i]][2], "T1", ord[i] - 1)]

\* main() not started
GenIdle ==
    /\ tool = "html"
    /\ rows = <<>>
    /\ row_i = 0
    /\ tasks = <<>>
    /\ stderr = <<>>
    /\ global_range = <<>>
    /\ thread_layout = <<>>
    /\ svg_items = <<>>
    /\ fs_dirs = {}
    /\ fs_files = {}
    /\ pc = "idle"

\* generate_html's range on binary64 timestamps not started
FloatIdle ==
    /\ f_tasks = <<>>
    /\ f_range = <<>>
    /\ f_pc = "idle"

\* no page loaded
ViewIdle ==
    /\ v_tasks = <<>>
    /\ document = <<>>
    /\ blocks = <<>>
    /\ textContent = <<>>
    /\ task_display = <<>>
    /\ text_display = <<>>
    /\ last = [op |-> "none"]

\* assign_rows_per_thread not called
PackIdle ==
    /\ lane_tasks = <<>>
    /\ tasks_sorted = <<>>
    /\ rows_end = <<>>
    /\ assigned = <<>>
    /\ rows_count = -1
    /\ pkpc = "idle"

PackLocalsInit ==
    /\ GenIdle
    /\ FloatIdle
    /\ ViewIdle
    /\ tasks_sorted = <<>>
    /\ rows_end = <<>>
    /\ assigned = <<>>
    /\ rows_count = -1
    /\ pkpc = "sort"

\* the lane (0,10,a), (5,15,b), (20,30,c), in parse order
Scenario1 ==
    <<MkTask(0, 10, "T1", 0), MkTask(5, 15, "T1", 1), MkTask(20, 30, "T1", 2)>>

\* the call generate_html makes: the lane's tasks in parse order, their
\* (start, end) pairs being any sequence of pairs
PackInit ==
    /\ \/ \E n \in 0 .. MaxTasks :
            \E tm \in [1 .. n -> Times \X Times] :
               lane_tasks = LaneOf(n, tm, [i \in 1 .. n |-> i])
       \/ lane_tasks = Scenario1
    /\ PackLocalsInit

\* a call with the same tasks in any order
PackInitAnyOrder ==
    /\ \E n \in 0 .. MaxTasks :
         \E tm \in [1 .. n -> Times \X Times], ord \in Permutations(1 .. n) :
            lane_tasks = LaneOf(n, tm, ord)
    /\ PackLocalsInit

PackSort ==
    /\ pkpc = "sort"
    /\ tasks_sorted' = sorted(lane_tasks)
    /\ pkpc' = "loop"
    /\ UNCHANGED <<lane_tasks, rows_end, assigned, rows_count, notPack>>

PackIter ==
    /\ pkpc = "loop"
    /\ Len(assigned) < Len(tasks_sorted)
    /\ LET st == PlaceTask([rows_end |-> rows_end, assigned |-> assigned],
                           tasks_sorted[Len(assigned) + 1])
       IN  /\ rows_end' = st.rows_end
           /\ assigned' = st.assigned
    /\ UNCHANGED <<lane_tasks, tasks_sorted, rows_count, pkpc, notPack>>

PackReturn ==
    /\ pkpc = "loop"
    /\ Len(assigned) = Len(tasks_sorted)
    /\ rows_count' = Len(rows_end)
    /\ pkpc' = "done"
    /\ UNCHANGED <<lane_tasks, tasks_sorted, rows_end, assigned, notPack>>

PackNext == PackSort \/ PackIter \/ PackReturn

SpecPack == PackInit /\ [][PackNext]_vars

SpecPackAnyOrder == PackInitAnyOrder /\ [][PackNext]_vars

-----------------------------------------------------------------------------
(* Cell conversions, tabulated on the cells the inputs are drawn from.       *)
(* A conversion that raises returns <<>>, one that succeeds <<value>>.       *)

\* str.strip()
strip(s) == CASE s = " 1" -> "1" [] s = " " -> "" [] OTHER -> s

\* float(s)
float(s) ==
    CASE s = "0" -> <<0>> [] s = "1" -> <<1>> [] s = "7" -> <<7>>
      [] OTHER -> <<>>

\* int(s)
int(s) ==
    CASE s = "0" -> <<0>> [] s = "1" -> <<1>> [] s = "7" -> <<7>>
      [] OTHER -> <<>>

\* int(s, 16)
int_hex(s) ==
    CASE s = "0" -> <<0>> [] s = "1" -> <<1>> [] s = "7" -> <<7>>
      [] s = "ff" -> <<255>> [] OTHER -> <<>>

\* s.startswith("#")
startswith_hash(s) == s \in {"#ff", "#zz"}

\* s.lstrip("#")
lstrip_hash(s) == CASE s = "#ff" -> "ff" [] s = "#zz" -> "zz" [] OTHER -> s

\* trace_to_html.parse_input, the color column: None is <<>>
html_color(row) ==
    IF Len(row) >= 5
    THEN LET raw == strip(row[5])
         IN  IF raw # ""
             THEN IF int(raw) # <<>> THEN int(raw)
                  ELSE IF startswith_hash(raw) THEN int_hex(lstrip_hash(raw))
                  ELSE <<>>
             ELSE <<>>
    ELSE <<>>

\* generate_trace_json._convert_color(raw)
convert_color(raw0) ==
    LET raw == strip(raw0)
    IN  IF raw = "" THEN <<>>
        ELSE IF int(raw) # <<>> THEN int(raw)
        ELSE IF startswith_hash(raw) THEN int_hex(lstrip_hash(raw))
        ELSE int_hex(raw)

\* generate_trace_json.parse_input, the overhead column
overhead_duration(row) ==
    IF Len(row) >= 5
    THEN LET rawov == strip(row[5])
         IN  IF rawov # "" /\ float(rawov) # <<>> /\ float(rawov)[1] >= 0
             THEN float(rawov) ELSE <<>>
    ELSE <<>>

\* mutant of DiagLine
DiagLineOffByOne(k) == k

\* the line number a diagnostic names for enumerate index k: i+1
DiagLine(k) == k + 1

Diag(m, k) == [msg |-> m, line |-> DiagLine(k)]

\* one iteration of trace_to_html.parse_input on row number k (from 0):
\* the tasks it appends and the diagnostics it prints
html_parse_row(row, k) ==
    IF row = <<>> THEN [tasks |-> <<>>, stderr |-> <<>>]
    ELSE IF Len(row) < 4
    THEN [tasks |-> <<>>, stderr |-> <<Diag("Skipping invalid line", k)>>]
    ELSE IF float(strip(row[1])) = <<>> \/ float(strip(row[2])) = <<>>
    THEN [tasks |-> <<>>, stderr |-> <<Diag("Bad times on line", k)>>]
    ELSE [tasks |-> <<[start |-> float(strip(row[1]))[1],
                       end |-> float(strip(row[2]))[1],
                       thread |-> strip(row[3]),
                       args |-> strip(row[4]),
                       color |-> html_color(row),
                       idx |-> k]>>,
          stderr |-> <<>>]

\* one iteration of generate_trace_json.parse_input; rows here have at most
\* six cells, so orig_args is [] and the formatted name is the name cell
json_parse_row(row, k) ==
    IF row = <<>> \/ \A c \in 1 .. Len(row) : strip(row[c]) = ""
    THEN [tasks |-> <<>>, stderr |-> <<>>]
    ELSE IF Len(row) < 4
    THEN [tasks |-> <<>>, stderr |-> <<Diag("Skipping invalid line", k)>>]
    ELSE IF float(strip(row[1])) = <<>> \/ float(strip(row[2])) = <<>>
    THEN [tasks |-> <<>>, stderr |-> <<Diag("Bad times on line", k)>>]
    ELSE [tasks |-> <<[start |-> float(strip(row[1]))[1],
                       end |-> float(strip(row[2]))[1],
                       thread |-> strip(row[3]),
                       args |-> strip(row[4]),
                       orig_args |-> <<>>,
                       overhead_duration_us |-> overhead_duration(row),
                       color |-> IF Len(row) >= 6 THEN convert_color(row[6])
                                 ELSE <<>>,
                       idx |-> k]>>,
          stderr |-> <<>>]

-----------------------------------------------------------------------------
(* generate_html: global range, coordinate mapper, scene *)

width_px == 1400
left_margin == 200
row_height == 20
row_padding == 6
track_spacing == 12
header_h == 40

MinOf(S) == CHOOSE m \in S : \A x \in S : m <= x
MaxOf(S) == CHOOSE m \in S : \A x \in S : x <= m

\* <<global_start, global_end>> of a non-empty task list, the end moved to
\* global_start + 1 when the two are equal
GlobalRange(tl) ==
    LET gs == MinOf({tl[k].start : k \in 1 .. Len(tl)})
        ge == MaxOf({tl[k].end : k \in 1 .. Len(tl)})
    IN  IF ge = gs THEN <<gs, gs + 1>> ELSE <<gs, ge>>

-----------------------------------------------------------------------------
(* binary64 arithmetic, as Python's float does it. A natural number is the   *)
(* sequence of its digits in base 65536, lowest first, without leading       *)
(* zeros (<<>> is 0). A float is [neg, m, e], the number                     *)
(* (-1)^neg * m * 2^e, with m odd and below 2^53; zero is                    *)
(* [neg |-> FALSE, m |-> <<>>, e |-> 0]. Every operation computes the exact  *)
(* result and rounds it to 53 bits, to nearest, ties to even. Timestamps     *)
(* are integers below 32768 in absolute value, so that no result leaves the  *)
(* normal range.                                                             *)

bn_digit(a, i) == IF i <= Len(a) THEN a[i] ELSE 0

\* leading zeros removed
bn_norm(a) ==
    LET nz == {i \in 1 .. Len(a) : a[i] # 0}
    IN  IF nz = {} THEN <<>>
        ELSE SubSeq(a, 1, CHOOSE i \in nz : \A j \in nz : j <= i)

RECURSIVE bn_from_nat(_)
bn_from_nat(n) ==
    IF n = 0 THEN <<>> ELSE <<n % 65536>> \o bn_from_nat(n \div 65536)

RECURSIVE bn_add_from(_, _, _, _)
bn_add_from(a, b, i, c) ==
    IF i > Len(a) /\ i > Len(b) THEN (IF c = 1 THEN <<1>> ELSE <<>>)
    ELSE LET sum == bn_digit(a, i) + bn_digit(b, i) + c
         IN  <<sum % 65536>> \o bn_add_from(a, b, i + 1, sum \div 65536)

bn_add(a, b) == bn_add_from(a, b, 1, 0)

\* a - b for a >= b
RECURSIVE bn_sub_from(_, _, _, _)
bn_sub_from(a, b, i, c) ==
    IF i > Len(a) THEN <<>>
    ELSE LET d == a[i] - bn_digit(b, i) - c
         IN  <<d % 65536>> \o bn_sub_from(a, b, i + 1, IF d < 0 THEN 1 ELSE 0)

bn_sub(a, b) == bn_norm(bn_sub_from(a, b, 1, 0))

\* a < b
bn_less(a, b) ==
    \/ Len(a) < Len(b)
    \/ /\ Len(a) = Len(b)
       /\ \E i \in 1 .. Len(a) :
             /\ a[i] < b[i]
             /\ \A j \in i + 1 .. Len(a) : a[j] = b[j]

\* a * n for a natural n <= 32768
RECURSIVE bn_mul_from(_, _, _, _)
bn_mul_from(a, n, i, c) ==
    IF i > Len(a) THEN bn_from_nat(c)
    ELSE LET v == a[i] * n + c
         IN  <<v % 65536>> \o bn_mul_from(a, n, i + 1, v \div 65536)

bn_mul_small(a, n) == bn_norm(bn_mul_from(a, n, 1, 0))

\* a * 2^k
bn_shl(a, k) ==
    IF a = <<>> THEN <<>>
    ELSE bn_mul_small([i \in 1 .. k \div 16 |-> 0] \o a, 2 ^ (k % 16))

\* a \div 2^k
bn_shr(a, k) ==
    LET q == k \div 16
        r == k % 16
    IN  bn_norm([i \in 1 .. Len(a) - q |->
                    (a[i + q] \div 2 ^ r)
                      + (bn_digit(a, i + q + 1) % 2 ^ r) * 2 ^ (16 - r)])

\* a % 2^k # 0
bn_low_nonzero(a, k) ==
    \/ \E i \in 1 .. k \div 16 : bn_digit(a, i) # 0
    \/ bn_digit(a, k \div 16 + 1) % 2 ^ (k % 16) # 0

\* bit k of a, the lowest being bit 1
bn_bit(a, k) ==
    (bn_digit(a, (k - 1) \div 16 + 1) \div 2 ^ ((k - 1) % 16)) % 2

\* number of bits of the natural n
RECURSIVE bit_length(_)
bit_length(n) == IF n = 0 THEN 0 ELSE 1 + bit_length(n \div 2)

\* number of bits of a
bn_bit_length(a) ==
    IF a = <<>> THEN 0 ELSE 16 * (Len(a) - 1) + bit_length(a[Len(a)])

fp_zero == [neg |-> FALSE, m |-> <<>>, e |-> 0]

\* the float of value (-1)^neg * m * 2^e for m below 2^53
fp_canon(neg, m, e) ==
    IF m = <<>> THEN fp_zero
    ELSE LET z == CHOOSE k \in 0 .. bn_bit_length(m) - 1 :
                     /\ bn_bit(m, k + 1) = 1
                     /\ ~bn_low_nonzero(m, k)
         IN  [neg |-> neg, m |-> bn_shr(m, z), e |-> e + z]

\* (-1)^neg * (m + s) * 2^e, 0 <= s < 1 and s # 0 exactly when sticky,
\* rounded to 53 bits
fp_round(neg, m, e, sticky) ==
    IF bn_bit_length(m) <= 53 THEN fp_canon(neg, m, e)
    ELSE LET d == bn_bit_length(m) - 53
             keep == bn_shr(m, d)
             rest == sticky \/ bn_low_nonzero(m, d - 1)
             up == bn_bit(m, d) = 1 /\ (rest \/ bn_bit(keep, 1) = 1)
         IN  fp_canon(neg, IF up THEN bn_add(keep, <<1>>) ELSE keep, e + d)

\* float(n) for an integer n
fp_from_int(n) == fp_canon(n < 0, bn_from_nat(IF n < 0 THEN -n ELSE n), 0)

\* the digits of r/b behind the point, k of them, and what is left
RECURSIVE fraction_digits(_, _, _)
fraction_digits(r, b, k) ==
    IF k = 0 THEN [q |-> <<>>, r |-> r]
    ELSE LET nxt == fraction_digits((65536 * r) % b, b, k - 1)
         IN  [q |-> Append(nxt.q, (65536 * r) \div b), r |-> nxt.r]

\* a / b for integer-valued floats a and b, 0 < |b| < 32768: the quotient
\* to 80 bits behind the point, of which at least 65 are significant
fp_div(a, b) ==
    LET na == IF a < 0 THEN -a ELSE a
        nb == IF b < 0 THEN -b ELSE b
        fr == fraction_digits(na % nb, nb, 5)
    IN  fp_round((a < 0) # (b < 0),
                 bn_norm(fr.q \o bn_from_nat(na \div nb)), -80, fr.r # 0)

\* x * n for a float x and a non-negative integer n
fp_mul_int(x, n) == fp_round(x.neg, bn_mul_small(x.m, n), x.e, FALSE)

fp_neg(x) == IF x.m = <<>> THEN x ELSE [x EXCEPT !.neg = ~x.neg]

\* x + y, not rounded: [neg, m, e] with m of any length
fp_sum_exact(x, y) ==
    LET e == IF x.e < y.e THEN x.e ELSE y.e
        a == bn_shl(x.m, x.e - e)
        b == bn_shl(y.m, y.e - e)
    IN  IF x.neg = y.neg THEN [neg |-> x.neg, m |-> bn_add(a, b), e |-> e]
        ELSE IF bn_less(a, b) THEN [neg |-> y.neg, m |-> bn_sub(b, a), e |-> e]
        ELSE [neg |-> x.neg, m |-> bn_sub(a, b), e |-> e]

\* x + y
fp_add(x, y) ==
    LET r == fp_sum_exact(x, y) IN fp_round(r.neg, r.m, r.e, FALSE)

\* x - y
fp_sub(x, y) == fp_add(x, fp_neg(y))

\* x < y
fp_less(x, y) ==
    LET r == fp_sum_exact(x, fp_neg(y)) IN r.neg /\ r.m # <<>>

\* time_to_x(us) under the range gr = <<global_start, global_end>>:
\* rel = (us - gs) / (ge - gs);
\* left_margin + float(rel * (width_px - left_margin - 40))
time_to_x(us, gr) ==
    LET rel == fp_div(us - gr[1], gr[2] - gr[1])
    IN  fp_add(fp_from_int(left_margin),
               fp_mul_int(rel, width_px - left_margin - 40))

\* gW = max(2, time_to_x(t.end) - gx): the first argument unless the second
\* is greater
task_width(t, gr) ==
    LET d == fp_sub(time_to_x(t.end, gr), time_to_x(t.start, gr))
    IN  IF fp_less(fp_from_int(2), d) THEN d ELSE fp_from_int(2)

\* lane names in the order sorted() gives them
ThreadNames == <<"T1", "T2">>

\* thread_order = sorted(thread_layout.keys())
thread_order(tl) ==
    SelectSeq(ThreadNames,
              LAMBDA th : \E k \in 1 .. Len(tl) : tl[k].thread = th)

\* threads[thread]: the lane's tasks in list order
threads_of(tl, th) == SelectSeq(tl, LAMBDA t : t.thread = th)

\* thread_layout, listed in thread_order
ThreadLayout(tl) ==
    LET ord == thread_order(tl)
    IN  [k \in 1 .. Len(ord) |->
            LET r == assign_rows_per_thread(threads_of(tl, ord[k]))
            IN  [thread |-> ord[k], assigned |-> r.assigned,
                 rows_count |-> r.rows_count]]

\* the task items of one lane; nblocks = len(thread_blocks) after the append
lane_items(asg, gr, row_index_global, nblocks) ==
    [k \in 1 .. Len(asg) |->
        [type |-> "task",
         x |-> time_to_x(asg[k].task.start, gr),
         y |-> header_h
               + (row_index_global + asg[k].row) * (row_height + row_padding)
               + (nblocks - 1) * track_spacing,
         w |-> task_width(asg[k].task, gr),
         h |-> row_height,
         start |-> asg[k].task.start,
         end |-> asg[k].task.end,
         thread |-> asg[k].task.thread,
         idx |-> asg[k].task.idx,
         row_local |-> asg[k].row,
         row_global |-> row_index_global + asg[k].row]]

\* the loop `for thread in thread_order` from lane k on
RECURSIVE scene_from(_, _, _, _, _)
scene_from(layout, gr, k, y_cursor, row_index_global) ==
    IF k > Len(layout) THEN <<>>
    ELSE <<[type |-> "thread_header", x |-> 0, y |-> y_cursor,
            w |-> width_px, h |-> row_height + row_padding,
            thread |-> layout[k].thread]>>
         \o lane_items(layout[k].assigned, gr, row_index_global, k)
         \o scene_from(layout, gr, k + 1,
                       header_h
                         + (row_index_global + layout[k].rows_count)
                             * (row_height + row_padding)
                         + k * track_spacing,
                       row_index_global + layout[k].rows_count)

\* svg_items
Scene(layout, gr) == scene_from(layout, gr, 1, header_h, 0)

RECURSIVE total_rows(_, _)
total_rows(layout, k) ==
    IF k > Len(layout) THEN 0
    ELSE layout[k].rows_count + total_rows(layout, k + 1)

total_height(layout) ==
    header_h + total_rows(layout, 1) * (row_height + row_padding)
      + Len(layout) * track_spacing + 100

-----------------------------------------------------------------------------
(* SpecGen: main() of trace_to_html.py and of generate_trace_json.py *)

MaxRows == 2

\* the csv rows inputs are made of
SampleRows ==
    {<<>>, <<" ">>, <<"", "", "">>, <<"0", "1", "T1">>,
     <<"x", "1", "T1", "a">>, <<"0", "x", "T1", "a">>,
     <<"0", " 1", "T1", "a">>, <<"0", "1", "T2", "b">>}
    \cup {<<s, e, "T1", "a">> : s \in {"0", "1"}, e \in {"0", "1"}}
    \cup {<<"0", "1", "T1", "a", c>> : c \in {"", "7", "#ff", "ff", "red", "#zz"}}
    \cup {<<"0", "1", "T1", "a", "7", c>> :
              c \in {"", "7", "#ff", "ff", "red", "#zz"}}

\* mutant of NoTasks
NoTasksNever(tl) == FALSE

\* `if not tasks`
NoTasks(tl) == tl = <<>>

GenInit ==
    /\ tool \in {"html", "json"}
    /\ \E n \in 0 .. MaxRows : rows \in [1 .. n -> SampleRows]
    /\ row_i = 0
    /\ tasks = <<>>
    /\ stderr = <<>>
    /\ global_range = <<>>
    /\ thread_layout = <<>>
    /\ svg_items = <<>>
    /\ fs_dirs = {}
    /\ fs_files = {}
    /\ pc = "parse"
    /\ PackIdle
    /\ FloatIdle
    /\ ViewIdle

\* one iteration of parse_input's for loop
ParseRow ==
    /\ pc = "parse"
    /\ row_i < Len(rows)
    /\ LET res == IF tool = "html" THEN html_parse_row(rows[row_i + 1], row_i)
                  ELSE json_parse_row(rows[row_i + 1], row_i)
       IN  /\ tasks' = tasks \o res.tasks
           /\ stderr' = stderr \o res.stderr
    /\ row_i' = row_i + 1
    /\ UNCHANGED <<tool, rows, global_range, thread_layout, svg_items,
                   fs_dirs, fs_files, pc, notGen>>

\* parse_input returns; main() calls the generator
ParseReturn ==
    /\ pc = "parse"
    /\ row_i = Len(rows)
    /\ pc' = "generate"
    /\ UNCHANGED <<tool, rows, row_i, tasks, stderr, global_range,
                   thread_layout, svg_items, fs_dirs, fs_files, notGen>>

\* generate_html / export_json with no task: a diagnostic, then return
NoTasksReturn ==
    /\ pc = "generate"
    /\ NoTasks(tasks)
    /\ stderr' = Append(stderr,
                        [msg |-> IF tool = "html" THEN "No tasks found."
                                 ELSE "No tasks to export.",
                         line |-> 0])
    /\ pc' = "done"
    /\ UNCHANGED <<tool, rows, row_i, tasks, global_range, thread_layout,
                   svg_items, fs_dirs, fs_files, notGen>>

\* generate_html: global range (min()/max() of an empty list raise ValueError)
HtmlRange ==
    /\ pc = "generate"
    /\ tool = "html"
    /\ ~NoTasks(tasks)
    /\ IF tasks = <<>>
       THEN pc' = "ValueError" /\ UNCHANGED global_range
       ELSE pc' = "layout" /\ global_range' = GlobalRange(tasks)
    /\ UNCHANGED <<tool, rows, row_i, tasks, stderr, thread_layout, svg_items,
                   fs_dirs, fs_files, notGen>>

\* generate_html: rows per lane, then the scene; the first time_to_x call
\* divides by global_end - global_start
HtmlLayout ==
    /\ pc = "layout"
    /\ thread_layout' = ThreadLayout(tasks)
    /\ IF global_range[2] - global_range[1] = 0
       THEN pc' = "ZeroDivisionError" /\ UNCHANGED svg_items
       ELSE pc' = "write" /\ svg_items' = Scene(ThreadLayout(tasks), global_range)
    /\ UNCHANGED <<tool, rows, row_i, tasks, stderr, global_range, fs_dirs,
                   fs_files, notGen>>

\* generate_html: open(out_path, "w") and write
HtmlWrite ==
    /\ pc = "write"
    /\ fs_files' = fs_files \cup {[path |-> "out_path", content |-> svg_items]}
    /\ pc' = "done"
    /\ UNCHANGED <<tool, rows, row_i, tasks, stderr, global_range,
                   thread_layout, svg_items, fs_dirs, notGen>>

\* export_json: os.makedirs(out_dir, exist_ok=True)
JsonMkdir ==
    /\ pc = "generate"
    /\ tool = "json"
    /\ ~NoTasks(tasks)
    /\ fs_dirs' = fs_dirs \cup {"out_dir"}
    /\ pc' = "range"
    /\ UNCHANGED <<tool, rows, row_i, tasks, stderr, global_range,
                   thread_layout, svg_items, fs_files, notGen>>

\* export_json: global_start, global_end (no widening here)
JsonRange ==
    /\ pc = "range"
    /\ IF tasks = <<>>
       THEN pc' = "ValueError" /\ UNCHANGED global_range
       ELSE /\ pc' = "dump"
            /\ global_range' =
                 <<MinOf({tasks[k].start : k \in 1 .. Len(tasks)}),
                   MaxOf({tasks[k].end : k \in 1 .. Len(tasks)})>>
    /\ UNCHANGED <<tool, rows, row_i, tasks, stderr, thread_layout, svg_items,
                   fs_dirs, fs_files, notGen>>

\* export_json: the threads in first-appearance order
RECURSIVE first_seen(_)
first_seen(tl) ==
    IF tl = <<>> THEN <<>>
    ELSE LET r == first_seen(SubSeq(tl, 1, Len(tl) - 1))
         IN  IF \E k \in 1 .. Len(r) : r[k] = tl[Len(tl)].thread THEN r
             ELSE Append(r, tl[Len(tl)].thread)

\* export_json: data, written to out_dir/trace.json
JsonWrite ==
    /\ pc = "dump"
    /\ LET ord == first_seen(tasks)
       IN  fs_files' = fs_files \cup
             {[path |-> "out_dir/trace.json",
               content |-> [global_start |-> global_range[1],
                            global_end |-> global_range[2],
                            threads |-> [k \in 1 .. Len(ord) |->
                                [id |-> ord[k],
                                 tasks |-> threads_of(tasks, ord[k])]]]]}
    /\ pc' = "done"
    /\ UNCHANGED <<tool, rows, row_i, tasks, stderr, global_range,
                   thread_layout, svg_items, fs_dirs, notGen>>

GenNext ==
    \/ ParseRow \/ ParseReturn \/ NoTasksReturn
    \/ HtmlRange \/ HtmlLayout \/ HtmlWrite
    \/ JsonMkdir \/ JsonRange \/ JsonWrite

SpecGen == GenInit /\ [][GenNext]_vars

-----------------------------------------------------------------------------
(* The page generate_html writes, as the script reads it. Vertical           *)
(* positions of text nodes are kept in 1/90 px (field y90), so that          *)
(* y + h/1.8 = (90y + 50h)/90 and y + h*0.7 = (90y + 63h)/90 are exact.      *)
(* Every y and h is an integer, so the script's float comparisons of these  *)
(* positions with block tops and bottoms (integers) and with 6 px decide as  *)
(* the 1/90 px values do: no difference comes within rounding of a bound.    *)

ticks == 8

\* the ruler labels: <text y="{header_h-10}" class="time-label">
ruler_texts ==
    [n \in 1 .. ticks + 1 |->
        [cls |-> "time-label", y90 |-> 90 * (header_h - 10),
         content |-> <<"", "tick">>, thread |-> "", idx |-> -1]]

\* the text nodes one scene item emits
item_texts(item) ==
    IF item.type = "thread_header"
    THEN <<[cls |-> "thread-label", y90 |-> 90 * item.y + 50 * item.h,
            content |-> <<">", item.thread>>, thread |-> item.thread,
            idx |-> -1]>>
    ELSE IF fp_less(fp_from_int(40), item.w)
    THEN <<[cls |-> "task-label", y90 |-> 90 * item.y + 63 * item.h,
            content |-> <<"", "args">>, thread |-> item.thread,
            idx |-> item.idx]>>
    ELSE <<>>

RECURSIVE scene_texts(_)
scene_texts(items) ==
    IF items = <<>> THEN <<>>
    ELSE item_texts(items[1]) \o scene_texts(SubSeq(items, 2, Len(items)))

\* the page
Document(items, height) ==
    [height |-> height,
     texts |-> ruler_texts \o scene_texts(items),
     tasks |-> SelectSeq(items, LAMBDA it : it.type = "task"),
     headerRects |-> SelectSeq(items, LAMBDA it : it.type = "thread_header")]

\* generate_html on a non-empty task list, up to the page
Page(tl) ==
    LET layout == ThreadLayout(tl)
    IN  Document(Scene(layout, GlobalRange(tl)), total_height(layout))

-----------------------------------------------------------------------------
(* The script: blocks *)

\* Math.abs(ty - (y + h/1.8)) < 6
near_label(t, y, h) ==
    LET d == t.y90 - (90 * y + 50 * h)
    IN  (IF d < 0 THEN -d ELSE d) < 6 * 90

\* index of the first text node, in document order, near the header's label
\* position; 0 when there is none
first_near(texts, y, h) ==
    LET near == {j \in 1 .. Len(texts) : near_label(texts[j], y, h)}
    IN  IF near = {} THEN 0 ELSE CHOOSE j \in near : \A n \in near : j <= n

\* blocks.sort((a, b) => a.y - b.y)
RECURSIVE sort_by_y(_)
sort_by_y(bs) ==
    IF bs = <<>> THEN <<>>
    ELSE LET r == sort_by_y(SubSeq(bs, 1, Len(bs) - 1))
             b == bs[Len(bs)]
             p == Cardinality({n \in 1 .. Len(r) : r[n].y <= b.y})
         IN  SubSeq(r, 1, p) \o <<b>> \o SubSeq(r, p + 1, Len(r))

\* mutant of block_bottom: every block reaches down to the page's end
block_bottom_page_end(bs, k, height) == height

\* bottom of block k: the next header's y, the page height for the last
block_bottom(bs, k, height) ==
    IF k + 1 <= Len(bs) THEN bs[k + 1].y ELSE height

\* the blocks array once the script has run
Blocks(doc) ==
    LET bs == sort_by_y(
                [n \in 1 .. Len(doc.headerRects) |->
                    LET hr == doc.headerRects[n]
                        j == first_near(doc.texts, hr.y, hr.h)
                    IN  [y |-> hr.y, h |-> hr.h,
                         label |-> IF j = 0 THEN "" ELSE doc.texts[j].content[2]]])
    IN  [k \in 1 .. Len(bs) |->
            [y |-> bs[k].y, h |-> bs[k].h, label |-> bs[k].label,
             top |-> bs[k].y + bs[k].h,
             bottom |-> block_bottom(bs, k, doc.height),
             textNode |-> first_near(doc.texts, bs[k].y, bs[k].h),
             hidden |-> "undefined"]]

\* a rect.task whose centre y + height/2 lies in [top, bottom)
task_in_block(r, b) ==
    /\ 90 * r.y + 45 * r.h >= 90 * b.top
    /\ 90 * r.y + 45 * r.h < 90 * b.bottom

\* a text node whose y lies in [top, bottom)
text_in_block(t, b) == t.y90 >= 90 * b.top /\ t.y90 < 90 * b.bottom

\* (hidden ? '> ' : 'v ') + label, the two glyphs written > and v here
glyph(hidden) == IF hidden = "true" THEN ">" ELSE "v"

\* hidden ? 'none' : ''
display(hidden) == IF hidden = "true" THEN "none" ELSE ""

\* toggleBlock(blocks[k]) on the script state st
toggleBlock(st, doc, k) ==
    LET hidden == IF st.blocks[k].hidden = "true" THEN "false" ELSE "true"
        b == st.blocks[k]
    IN  [blocks |-> [st.blocks EXCEPT ![k].hidden = hidden],
         textContent |->
            IF b.textNode # 0
            THEN [st.textContent EXCEPT ![b.textNode] = <<glyph(hidden), b.label>>]
            ELSE st.textContent,
         task_display |->
            [n \in 1 .. Len(doc.tasks) |->
                IF task_in_block(doc.tasks[n], b) THEN display(hidden)
                ELSE st.task_display[n]],
         text_display |->
            [j \in 1 .. Len(doc.texts) |->
                IF text_in_block(doc.texts[j], b) THEN display(hidden)
                ELSE st.text_display[j]],
         threw |-> FALSE]

\* window.collapseAll(collapse) from block k on. The text loop tests
\* `ty >= b.top && ty < block.bottom`; no `block` is in scope there, so the
\* first text node with ty >= b.top raises ReferenceError and the handler
\* ends with what it had done so far.
RECURSIVE collapseAll(_, _, _, _)
collapseAll(st, doc, collapse, k) ==
    IF k > Len(st.blocks) THEN st
    ELSE LET b == st.blocks[k]
             hidden == IF collapse THEN "true" ELSE "false"
             st1 == [st EXCEPT
                       !.blocks[k].hidden = hidden,
                       !.textContent =
                          IF b.textNode # 0
                          THEN [st.textContent EXCEPT
                                  ![b.textNode] = <<glyph(hidden), b.label>>]
                          ELSE st.textContent,
                       !.task_display =
                          [n \in 1 .. Len(doc.tasks) |->
                              IF task_in_block(doc.tasks[n], b)
                              THEN display(hidden)
                              ELSE st.task_display[n]]]
         IN  IF \E j \in 1 .. Len(doc.texts) : doc.texts[j].y90 >= 90 * b.top
             THEN [st1 EXCEPT !.threw = TRUE]
             ELSE collapseAll(st1, doc, collapse, k + 1)

-----------------------------------------------------------------------------
(* SpecView *)

MaxViewTasks == 3

\* the (start, end) pairs the rendered tasks are drawn from
ViewSpans == {<<0, 2>>, <<1, 3>>, <<1, 1>>}

ScriptState ==
    [blocks |-> blocks, textContent |-> textContent,
     task_display |-> task_display, text_display |-> text_display,
     threw |-> FALSE]

\* a lane whose second task is 40 px wide in exact arithmetic and
\* 40.000000000000114 px in binary64, so that `w > 40` gives it a label
RoundedWidthLane == <<MkTask(0, 29, "T1", 0), MkTask(17, 18, "T1", 1)>>

ViewInit ==
    /\ \/ \E n \in 1 .. MaxViewTasks :
            \E sp \in [1 .. n -> ViewSpans], th \in [1 .. n -> {"T1", "T2"}] :
               v_tasks = [k \in 1 .. n |->
                             MkTask(sp[k][1], sp[k][2], th[k], k - 1)]
       \/ v_tasks = RoundedWidthLane
    /\ document = Page(v_tasks)
    /\ blocks = Blocks(document)
    /\ textContent = [j \in 1 .. Len(document.texts) |->
                         document.texts[j].content]
    /\ task_display = [n \in 1 .. Len(document.tasks) |-> ""]
    /\ text_display = [j \in 1 .. Len(document.texts) |-> ""]
    /\ last = [op |-> "load"]
    /\ PackIdle
    /\ GenIdle
    /\ FloatIdle

\* a click on the header label of block k: the listener added at load runs
\* toggleBlock(b); the label's inline onclick names toggleThread, which the
\* page never defines, and changes nothing
Toggle(k) ==
    /\ blocks[k].textNode # 0
    /\ LET st == toggleBlock(ScriptState, document, k)
       IN  /\ blocks' = st.blocks
           /\ textContent' = st.textContent
           /\ task_display' = st.task_display
           /\ text_display' = st.text_display
    /\ last' = [op |-> "toggle", block |-> k, threw |-> FALSE]
    /\ UNCHANGED <<v_tasks, document, notView>>

\* a click on one of the two buttons: collapseAll(true) / collapseAll(false)
CollapseAll(collapse) ==
    /\ LET st == collapseAll(ScriptState, document, collapse, 1)
       IN  /\ blocks' = st.blocks
           /\ textContent' = st.textContent
           /\ task_display' = st.task_display
           /\ text_display' = st.text_display
           /\ last' = [op |-> "collapseAll", collapse |-> collapse,
                       threw |-> st.threw]
    /\ UNCHANGED <<v_tasks, document, notView>>

ViewNext ==
    \/ \E k \in 1 .. Len(blocks) : Toggle(k)
    \/ \E collapse \in BOOLEAN : CollapseAll(collapse)

SpecView == ViewInit /\ [][ViewNext]_vars

-----------------------------------------------------------------------------
(* Claims about the viewer *)

\* the lane a block stands for
LaneOfBlock(k) == blocks[k].label

\* C4: when a lane has just been toggled to collapsed, every task rectangle
\* and every task label of that lane, in each of its rows, is hidden; when it
\* has just been toggled back to expanded, every one of them is visible.
C4_ToggleCoversAllRows ==
    last.op = "toggle" =>
        LET th == LaneOfBlock(last.block)
            want == display(blocks[last.block].hidden)
        IN  /\ \A n \in 1 .. Len(document.tasks) :
                  document.tasks[n].thread = th => task_display[n] = want
            /\ \A j \in 1 .. Len(document.texts) :
                  (document.texts[j].cls = "task-label"
                     /\ document.texts[j].thread = th)
                  => text_display[j] = want

\* what a user of the page can tell apart
Observable(st) ==
    [collapsed |-> [k \in 1 .. Len(st.blocks) |-> st.blocks[k].hidden = "true"],
     indicator |-> [k \in 1 .. Len(st.blocks) |->
                       IF st.blocks[k].textNode = 0 THEN <<>>
                       ELSE st.textContent[st.blocks[k].textNode]],
     task_display |-> st.task_display,
     text_display |-> st.text_display]

\* toggle, one lane after the other from lane k on, each lane that is not in
\* the target state
RECURSIVE ToggleEachTo(_, _, _)
ToggleEachTo(st, collapse, k) ==
    IF k > Len(st.blocks) THEN st
    ELSE ToggleEachTo(
            IF (st.blocks[k].hidden = "true") = collapse THEN st
            ELSE toggleBlock(st, document, k),
            collapse, k + 1)

\* C5: collapseAll(target) completes and leaves the hidden flags, the
\* disclosure indicators and the visibility of every task rectangle and label
\* as toggling each lane individually to the target state would.
C5_BulkEqualsToggles ==
    [][last'.op = "collapseAll" =>
          /\ ~last'.threw
          /\ Observable(ScriptState')
               = Observable(ToggleEachTo(ScriptState, last'.collapse, 1))]_vars

\* C6: a toggle of one lane leaves the hidden flag and the disclosure
\* indicator of every other lane, and the visibility of every task rectangle,
\* task label, header text and ruler label that belongs to another lane or to
\* no lane, as they were.
C6_ToggleChangesOwnLaneOnly ==
    [][last'.op = "toggle" =>
          LET k == last'.block
              th == LaneOfBlock(k)
          IN  /\ \A j \in 1 .. Len(blocks) :
                    j # k => blocks'[j] = blocks[j]
              /\ \A n \in 1 .. Len(document.tasks) :
                    document.tasks[n].thread # th
                    => task_display'[n] = task_display[n]
              /\ \A j \in 1 .. Len(document.texts) :
                    document.texts[j].thread # th
                    => /\ text_display'[j] = text_display[j]
                       /\ textContent'[j] = textContent[j]]_vars

\* C6 witness: the second lane has just been toggled to collapsed while the
\* first lane was collapsed with one of its rectangles hidden, and still is
C6_Witness ==
    /\ last.op = "toggle"
    /\ Len(blocks) = 2
    /\ last.block = 2
    /\ blocks[2].hidden = "true"
    /\ blocks[1].hidden = "true"
    /\ \E n \in 1 .. Len(document.tasks) :
          /\ document.tasks[n].thread = LaneOfBlock(1)
          /\ task_display[n] = "none"

-----------------------------------------------------------------------------
(* SpecRange: generate_html's global range and its first time_to_x call on   *)
(* binary64 timestamps around 2^53, where x + 1 is no longer exact.          *)
(* A timestamp is [hi, lo], the number hi * 2^53 + lo with hi in {0, 1} and  *)
(* lo small; in 2^53 .. 2^54 the representable numbers are the even ones.    *)

MaxFloatTasks == 2

F(h, l) == [hi |-> h, lo |-> l]

\* 0, 1, 2^53 - 1, 2^53, 2^53 + 2
FloatSamples == {F(0, 0), F(0, 1), F(1, -1), F(1, 0), F(1, 2)}

\* a < b
f_less(a, b) == a.hi < b.hi \/ (a.hi = b.hi /\ a.lo < b.lo)

f_min(S) == CHOOSE m \in S : \A x \in S : m = x \/ f_less(m, x)
f_max(S) == CHOOSE m \in S : \A x \in S : m = x \/ f_less(x, m)

\* a + 1 in binary64 (round to nearest, ties to even): exact up to 2^53;
\* above, a + 1 lies midway between a and a + 2 and the one whose
\* significand (2^53 + lo) / 2 is even is returned
f_add_one(a) ==
    IF a.hi = 0 \/ a.lo < 0 THEN F(a.hi, a.lo + 1)
    ELSE IF a.lo % 4 = 0 THEN a
    ELSE F(a.hi, a.lo + 2)

FloatInit ==
    /\ \E n \in 1 .. MaxFloatTasks :
         f_tasks \in [1 .. n -> [start : FloatSamples, end : FloatSamples]]
    /\ f_range = <<>>
    /\ f_pc = "range"
    /\ PackIdle
    /\ GenIdle
    /\ ViewIdle

\* global_start, global_end, and the widening `global_end = global_start + 1`
FloatRange ==
    /\ f_pc = "range"
    /\ LET gs == f_min({f_tasks[k].start : k \in 1 .. Len(f_tasks)})
           ge == f_max({f_tasks[k].end : k \in 1 .. Len(f_tasks)})
       IN  f_range' = IF ge = gs THEN <<gs, f_add_one(gs)>> ELSE <<gs, ge>>
    /\ f_pc' = "map"
    /\ UNCHANGED <<f_tasks, notFloat>>

\* the first time_to_x call: global_end - global_start is zero exactly when
\* the two are equal, and float division by zero raises
FloatMapRaises ==
    /\ f_pc = "map"
    /\ f_range[2] = f_range[1]
    /\ f_pc' = "ZeroDivisionError"
    /\ UNCHANGED <<f_tasks, f_range, notFloat>>

FloatMapReturns ==
    /\ f_pc = "map"
    /\ f_range[2] # f_range[1]
    /\ f_pc' = "mapped"
    /\ UNCHANGED <<f_tasks, f_range, notFloat>>

FloatNext == FloatRange \/ FloatMapRaises \/ FloatMapReturns

SpecRange == FloatInit /\ [][FloatNext]_vars

-----------------------------------------------------------------------------
(* Claims about the row packer (SpecPack) *)

NoOverlap(a, b) == a.end <= b.start \/ b.end <= a.start

\* C1: at every point of assign_rows_per_thread, and so in what it returns,
\* any two distinct tasks placed on the same row satisfy
\* a.end <= b.start or b.end <= a.start, whatever the input order and also
\* for zero-duration and end < start tasks.
C1_NoOverlapOnSharedRow ==
    \A i, j \in 1 .. Len(assigned) :
        (i # j /\ assigned[i].row = assigned[j].row)
            => NoOverlap(assigned[i].task, assigned[j].task)

\* three tasks share a row of the returned assignment, one zero-duration and
\* one with end < start
C1_Witness ==
    /\ pkpc = "done"
    /\ \E i, j, k \in 1 .. Len(assigned) :
          /\ i # j /\ j # k /\ i # k
          /\ assigned[i].row = assigned[j].row
          /\ assigned[j].row = assigned[k].row
          /\ assigned[i].task.end = assigned[i].task.start
          /\ assigned[j].task.end < assigned[j].task.start

\* the instants at which the number of active tasks can change
Instants(tl) ==
    {tl[i].start : i \in 1 .. Len(tl)} \cup
    {tl[i].end : i \in 1 .. Len(tl)}

\* tasks active at t: start <= t < end
ActiveAt(tl, t) ==
    Cardinality({i \in 1 .. Len(tl) :
                    tl[i].start <= t /\ t < tl[i].end})

\* the same, a task with end <= start counting as active at t = start only
ActiveAtOrDegenerate(tl, t) ==
    Cardinality({i \in 1 .. Len(tl) :
                    \/ tl[i].start <= t /\ t < tl[i].end
                    \/ tl[i].end <= tl[i].start /\ t = tl[i].start})

MaxActive(tl) ==
    IF tl = <<>> THEN 0
    ELSE CHOOSE m \in 0 .. Len(tl) :
           /\ \E t \in Instants(tl) : ActiveAt(tl, t) = m
           /\ \A t \in Instants(tl) : ActiveAt(tl, t) <= m

MaxActiveOrDegenerate(tl) ==
    IF tl = <<>> THEN 0
    ELSE CHOOSE m \in 0 .. Len(tl) :
           /\ \E t \in Instants(tl) : ActiveAtOrDegenerate(tl, t) = m
           /\ \A t \in Instants(tl) : ActiveAtOrDegenerate(tl, t) <= m

\* C2 as stated: the returned row count never exceeds the maximum number of
\* tasks active (start <= t < end) at one instant, for every input including
\* zero-duration and end < start tasks.
C2_RowsWithinMaxActive ==
    pkpc = "done" => rows_count <= MaxActive(lane_tasks)

\* C2 amended: the returned row count never exceeds the maximum number of
\* tasks active at one instant, a task being active at t when
\* start <= t < end and a task with end <= start counting as active at the
\* single instant t = start.
C2_RowsWithinMaxActiveOrDegenerate ==
    pkpc = "done" => rows_count <= MaxActiveOrDegenerate(lane_tasks)

\* a lane with a degenerate task for which the stated bound fails and the
\* amended one is met with equality on two rows or more
C2_Witness ==
    /\ pkpc = "done"
    /\ rows_count >= 2
    /\ \E i \in 1 .. Len(lane_tasks) : lane_tasks[i].end <= lane_tasks[i].start
    /\ rows_count > MaxActive(lane_tasks)
    /\ rows_count = MaxActiveOrDegenerate(lane_tasks)

\* the lane's tasks in sequence-index order
ByIdx(tl) ==
    [k \in 1 .. Len(tl) |->
        tl[CHOOSE i \in 1 .. Len(tl) : tl[i].idx = k - 1]]

\* the row an assignment gives the task with sequence index i
RowOfIdx(asg, i) ==
    asg[CHOOSE k \in 1 .. Len(asg) : asg[k].task.idx = i].row

\* C3: whatever the order in which the lane's tasks are passed, every task
\* (identified by its sequence index) gets the row, and the lane the row
\* count, that the sequence-index order gives.
C3_OrderIndependent ==
    pkpc = "done" =>
        LET ref == assign_rows_per_thread(ByIdx(lane_tasks))
        IN  /\ rows_count = ref.rows_count
            /\ \A i \in 0 .. Len(lane_tasks) - 1 :
                  RowOfIdx(assigned, i) = RowOfIdx(ref.assigned, i)

-----------------------------------------------------------------------------
(* Claims about parsing and generation (SpecGen) *)

\* the times the mapper is asked about: every start and end of the tasks
ProbeTimes == {tasks[k].start : k \in 1 .. Len(tasks)} \cup
              {tasks[k].end : k \in 1 .. Len(tasks)}

\* C7: once generate_html has built the global range of a non-empty task
\* list (zero-duration and end < start records included), time_to_x is
\* monotonic non-decreasing: t1 < t2 implies x(t1) <= x(t2).
C7_MapperMonotonic ==
    (tool = "html" /\ pc \in {"write", "done"} /\ global_range # <<>>) =>
        \A t1, t2 \in ProbeTimes :
            t1 < t2 => ~fp_less(time_to_x(t2, global_range),
                                time_to_x(t1, global_range))

\* a row with no cell, or only blank cells
BlankRow(row) == row = <<>> \/ \A c \in 1 .. Len(row) : strip(row[c]) = ""

\* a record with missing columns
MissingColumns(row) == ~BlankRow(row) /\ Len(row) < 4

\* a record with a non-numeric timestamp
BadTimestamp(row) ==
    /\ ~BlankRow(row)
    /\ Len(row) >= 4
    /\ (float(strip(row[1])) = <<>> \/ float(strip(row[2])) = <<>>)

\* a token that is neither empty, nor a decimal integer, nor hex digits with
\* or without a leading #
NotAColor(tok) ==
    tok # "" /\ int(tok) = <<>> /\ int_hex(lstrip_hash(tok)) = <<>>

\* a record, otherwise well-formed, whose color cell (the fifth for the HTML
\* tool, the sixth for the JSON tool) holds such a token
InvalidColor(row) ==
    /\ ~BlankRow(row)
    /\ Len(row) >= 4
    /\ ~BadTimestamp(row)
    /\ LET c == IF tool = "html" THEN 5 ELSE 6
       IN  Len(row) >= c /\ NotAColor(strip(row[c]))

\* rows[k] (k from 1) has been read and contributed no task
Skipped(k) == \A n \in 1 .. Len(tasks) : tasks[n].idx # k - 1

\* exactly one diagnostic names line k
Diagnosed(k) == Cardinality({n \in 1 .. Len(stderr) : stderr[n].line = k}) = 1

\* rows[k] (k from 1) contributed exactly one task, with the row's times
Kept(k) ==
    /\ Cardinality({n \in 1 .. Len(tasks) : tasks[n].idx = k - 1}) = 1
    /\ \A n \in 1 .. Len(tasks) :
          tasks[n].idx = k - 1 =>
              /\ tasks[n].start = float(strip(rows[k][1]))[1]
              /\ tasks[n].end = float(strip(rows[k][2]))[1]

\* C9 as stated: every record with missing columns, a non-numeric timestamp
\* or an invalid color token is skipped and a diagnostic names its line,
\* while every other non-blank record is processed.
C9_ParseErrorsSkipped ==
    \A k \in 1 .. row_i :
        /\ (MissingColumns(rows[k]) \/ BadTimestamp(rows[k])
              \/ InvalidColor(rows[k]))
             => (Skipped(k) /\ Diagnosed(k))
        /\ (~BlankRow(rows[k]) /\ ~MissingColumns(rows[k])
              /\ ~BadTimestamp(rows[k]) /\ ~InvalidColor(rows[k]))
             => Kept(k)

\* the rows read so far that are neither blank, short nor badly timed
GoodRows == {k \in 1 .. row_i : ~BlankRow(rows[k]) /\ ~MissingColumns(rows[k])
                                    /\ ~BadTimestamp(rows[k])}

\* C9 amended: every non-blank record with fewer than four columns or with
\* a non-numeric start or end is skipped (no task, no effect on the global
\* range) and exactly one diagnostic names its line number; every other
\* non-blank record is processed, and a record whose color token is invalid
\* is among these: it is kept, with no explicit color, and no diagnostic
\* names it.
C9_MalformedSkippedBadColorKept ==
    /\ \A k \in 1 .. row_i :
        /\ (MissingColumns(rows[k]) \/ BadTimestamp(rows[k]))
             => (Skipped(k) /\ Diagnosed(k))
        /\ k \in GoodRows
             => (Kept(k) /\ \A n \in 1 .. Len(stderr) : stderr[n].line # k)
        /\ InvalidColor(rows[k])
             => \A n \in 1 .. Len(tasks) :
                   tasks[n].idx = k - 1 => tasks[n].color = <<>>
    /\ global_range # <<>> =>
        /\ global_range[1]
             = MinOf({float(strip(rows[k][1]))[1] : k \in GoodRows})
        /\ LET ge == MaxOf({float(strip(rows[k][2]))[1] : k \in GoodRows})
           IN  global_range[2] =
                 IF tool = "html" /\ ge = global_range[1] THEN ge + 1 ELSE ge

\* a run that skipped a malformed record, kept a record with an invalid
\* color token and wrote its artifact
C9_Witness ==
    /\ pc = "done"
    /\ fs_files # {}
    /\ \E k \in 1 .. Len(rows) : MissingColumns(rows[k]) \/ BadTimestamp(rows[k])
    /\ \E k \in 1 .. Len(rows) : InvalidColor(rows[k])

\* C10: when parsing yields no valid record, the generator prints its
\* diagnostic and returns normally, having computed no range and no layout,
\* created no directory and opened no file.
C10_NoTasksNoArtifact ==
    (pc # "parse" /\ tasks = <<>>) =>
        /\ pc \in {"generate", "done"}
        /\ global_range = <<>>
        /\ thread_layout = <<>>
        /\ svg_items = <<>>
        /\ fs_dirs = {}
        /\ fs_files = {}
        /\ pc = "done" =>
             /\ stderr # <<>>
             /\ stderr[Len(stderr)].msg =
                  IF tool = "html" THEN "No tasks found."
                  ELSE "No tasks to export."

\* each generator has returned from an input whose records were all skipped
C10_Witness ==
    /\ pc = "done"
    /\ tasks = <<>>
    /\ \E k \in 1 .. Len(rows) : MissingColumns(rows[k])
    /\ \E k \in 1 .. Len(rows) : BadTimestamp(rows[k])
    /\ Len(stderr) = 3

-----------------------------------------------------------------------------
(* Claim about the packer's placement rule (SpecPack) *)

\* the rows in use before the k-th placement
RowsBefore(k) == {assigned[j].row : j \in 1 .. k - 1}

\* the cursor of row r before the k-th placement: the end of the task placed
\* there last
CursorBefore(r, k) ==
    LET on == {j \in 1 .. k - 1 : assigned[j].row = r}
    IN  assigned[CHOOSE j \in on : \A m \in on : m <= j].task.end

\* the row first-fit gives the k-th task: the lowest row in use whose cursor
\* is <= the task's start, a new row when there is none
FirstFitRow(k) ==
    LET fit == {r \in RowsBefore(k) :
                   CursorBefore(r, k) <= assigned[k].task.start}
    IN  IF fit # {} THEN CHOOSE r \in fit : \A q \in fit : r <= q
        ELSE Cardinality(RowsBefore(k))

\* C12: the tasks are processed in (start, end) order; each is placed in the
\* lowest existing row whose cursor is <= its start and a new row is opened
\* only when none qualifies; the rows in use are exactly 0 .. rows_count - 1;
\* and the lane (0,10,a), (5,15,b), (20,30,c) gets rows a:0, b:1, c:0.
C12_FirstFit ==
    /\ pkpc # "sort" =>
         /\ Len(tasks_sorted) = Len(lane_tasks)
         /\ \A i, j \in 1 .. Len(tasks_sorted) :
               i < j =>
                  \/ tasks_sorted[i].start < tasks_sorted[j].start
                  \/ /\ tasks_sorted[i].start = tasks_sorted[j].start
                     /\ tasks_sorted[i].end <= tasks_sorted[j].end
         /\ \A k \in 1 .. Len(assigned) : assigned[k].task = tasks_sorted[k]
    /\ \A k \in 1 .. Len(assigned) : assigned[k].row = FirstFitRow(k)
    /\ {assigned[k].row : k \in 1 .. Len(assigned)} = 0 .. Len(rows_end) - 1
    /\ pkpc = "done" =>
         /\ rows_count = Len(rows_end)
         /\ Len(assigned) = Len(lane_tasks)
         /\ lane_tasks = Scenario1 =>
               /\ RowOfIdx(assigned, 0) = 0
               /\ RowOfIdx(assigned, 1) = 1
               /\ RowOfIdx(assigned, 2) = 0

\* the packer has returned from the lane (0,10,a), (5,15,b), (20,30,c), where
\* c found both rows free and took the lower one
C12_Witness ==
    /\ pkpc = "done"
    /\ lane_tasks = Scenario1
    /\ rows_count = 2
    /\ assigned[3].task.idx = 2
    /\ assigned[3].row = 0

-----------------------------------------------------------------------------
(* Claim about the scene's vertical bands (SpecView: the rendered page) *)

\* the vertical bands [y, y + h) of two items share a point
BandsOverlap(a, b) == a.y < b.y + b.h /\ b.y < a.y + a.h

\* C11: in the scene generate_html builds, (i) task rectangles of different
\* lanes never overlap vertically, and (ii) every header rectangle's band
\* [y, y + h) overlaps the band of no task rectangle, of its own lane or of
\* another, and lies above the rows of its own lane.
C11_LanesAndHeadersDisjoint ==
    LET ts == document.tasks
        hs == document.headerRects
    IN  /\ \A a \in 1 .. Len(ts), b \in 1 .. Len(ts) :
              ts[a].thread # ts[b].thread => ~BandsOverlap(ts[a], ts[b])
        /\ \A n \in 1 .. Len(hs), a \in 1 .. Len(ts) :
              /\ ~BandsOverlap(hs[n], ts[a])
              /\ ts[a].thread = hs[n].thread => hs[n].y + hs[n].h <= ts[a].y

-----------------------------------------------------------------------------
(* Claim about the lanes' disclosure indicators (SpecView) *)

\* lane k is collapsed
Collapsed(k) == blocks[k].hidden = "true"

\* on a freshly loaded page every lane is expanded and everything is visible
StartsExpanded ==
    /\ \A k \in 1 .. Len(blocks) : ~Collapsed(k)
    /\ \A n \in 1 .. Len(task_display) : task_display[n] = ""
    /\ \A j \in 1 .. Len(text_display) : text_display[j] = ""

\* the indicator of every lane shows the collapsed glyph exactly when the
\* lane is collapsed and the expanded glyph exactly when it is expanded
IndicatorAgrees ==
    \A k \in 1 .. Len(blocks) :
        blocks[k].textNode # 0 =>
            textContent[blocks[k].textNode][1]
                = IF Collapsed(k) THEN ">" ELSE "v"

\* C13: each lane starts expanded with all its tasks visible, every toggle
\* flips the toggled lane between expanded and collapsed, and in every
\* reachable state, the initial one included, the lane's indicator agrees
\* with its state.
C13_IndicatorTracksState ==
    /\ StartsExpanded
    /\ [][\A k \in 1 .. Len(blocks) :
             (last'.op = "toggle" /\ last'.block = k)
             => Collapsed(k)' = ~Collapsed(k)]_vars
    /\ []IndicatorAgrees

-----------------------------------------------------------------------------
(* Claim about the widening of a zero-width range (SpecRange) *)

\* C8: for every non-empty input the range is widened before time_to_x is
\* called, so that global_end - global_start is non-zero whenever the mapper
\* is evaluated and no division by zero occurs.
C8_NoDivisionByZero ==
    /\ f_pc # "ZeroDivisionError"
    /\ f_pc \in {"map", "mapped"} => f_range[2] # f_range[1]

=============================================================================
